---- MODULE Spec2Model ----
(***************************************************************************)
(* A model of urbanspoon/core.py: a stateless library of reductions over   *)
(* labelled (time, lat, lon) arrays.  Every function of core.py is one     *)
(* action: it reads the input field `da`, and leaves in `call` the call    *)
(* that was made and in `out` what the call gave back (a reduced array, a  *)
(* mapping, or the exception it raised).                                   *)
(*                                                                         *)
(* Numbers.  A cell holds a float.  The model holds an extended rational  *)
(* <<n, d>> in lowest terms with d >= 0: d > 0 is the finite number n/d,   *)
(* <<0,0>> is NaN (xarray's missing value), <<1,0>> and <<-1,0>> are       *)
(* +inf and -inf.  Every arithmetic operation rounds its exact result to   *)
(* the nearest float of MantissaBits significant bits, ties to even, as    *)
(* IEEE-754 does with 53 bits; exponents are not bounded.                  *)
(***************************************************************************)
EXTENDS Integers, Sequences, FiniteSets, TLC

VARIABLES da, call, out

vars == <<da, call, out>>

\* ------------------------------------------------------------------ bounds

\* A cell holds a missing value or one of the integers 0..MaxVal.
MaxVal == 3

\* The significant bits of a float (53 in the code's float64).
MantissaBits == 8

\* ---------------------------------------------------------------- numbers

NaN == <<0, 0>>
PosInf == <<1, 0>>
NegInf == <<-1, 0>>
Zero == <<0, 1>>
One == <<1, 1>>

Abs(x) == IF x < 0 THEN -x ELSE x

Sign(x) == IF x > 0 THEN 1 ELSE IF x < 0 THEN -1 ELSE 0

RECURSIVE GCD(_, _)
GCD(a, b) == IF b = 0 THEN a ELSE GCD(b, a % b)

RECURSIVE Pow2(_)
Pow2(k) == IF k = 0 THEN 1 ELSE 2 * Pow2(k - 1)

\* The extended rational n/d in lowest terms, d >= 0; x/0 is +-inf, 0/0 NaN.
Norm(n, d) ==
    IF d = 0 THEN <<Sign(n), 0>>
    ELSE LET g == GCD(Abs(n), Abs(d))
             s == Sign(d)
         IN  <<(s * n) \div g, (s * d) \div g>>

\* The quotient a/d, a and d positive, rounded to MantissaBits significant
\* bits: d is doubled (e counts up) or a is doubled (e counts down) until
\* 2^(p-1) <= a/d < 2^p, the quotient is rounded to the nearest integer,
\* ties to even, and scaled back by 2^e.
MantissaEnd == Pow2(MantissaBits)

MantissaStart == Pow2(MantissaBits - 1)

RECURSIVE RoundScaled(_, _, _)
RoundScaled(a, d, e) ==
    IF a >= MantissaEnd * d THEN RoundScaled(a, 2 * d, e + 1)
    ELSE IF a < MantissaStart * d THEN RoundScaled(2 * a, d, e - 1)
    ELSE LET m == a \div d
             r == a % d
             up == 2 * r > d \/ (2 * r = d /\ m % 2 = 1)
             mant == IF up THEN m + 1 ELSE m
         IN  IF e >= 0 THEN Norm(mant * Pow2(e), 1) ELSE Norm(mant, Pow2(-e))

\* The float nearest to the extended rational x.
Fl(x) ==
    IF x[2] = 0 \/ x[1] = 0 THEN x
    ELSE LET r == RoundScaled(Abs(x[1]), x[2], 0)
         IN  <<Sign(x[1]) * r[1], r[2]>>

\* The float of an integer (the model's integers are small enough to be
\* exact).
Num(v) == Fl(<<v, 1>>)

IsNull(a) == a = NaN

IsFinite(a) == a[2] > 0

\* a * b: NaN propagates, and inf * 0 is NaN (Norm(0, 0)).
Mul(a, b) ==
    IF IsNull(a) \/ IsNull(b) THEN NaN
    ELSE Fl(Norm(a[1] * b[1], a[2] * b[2]))

\* a + b: NaN propagates, inf + (-inf) is NaN.
Add(a, b) ==
    IF IsNull(a) \/ IsNull(b) THEN NaN
    ELSE IF a[2] = 0 /\ b[2] = 0 THEN (IF a = b THEN a ELSE NaN)
    ELSE IF a[2] = 0 THEN a
    ELSE IF b[2] = 0 THEN b
    ELSE Fl(Norm(a[1] * b[2] + b[1] * a[2], a[2] * b[2]))

\* a - b
Sub(a, b) == Add(a, <<-b[1], b[2]>>)

\* a / b for finite a and b: x/0 is +-inf by the sign of x, 0/0 is NaN.
Div(a, b) ==
    IF IsNull(a) \/ IsNull(b) THEN NaN
    ELSE Fl(Norm(a[1] * b[2], a[2] * b[1]))

\* a <= b for finite a and b.
Le(a, b) == a[1] * b[2] <= b[1] * a[2]

\* a > b as numpy decides it: every comparison with NaN is False.
Gt(a, b) == ~IsNull(a) /\ ~IsNull(b) /\ a[1] * b[2] > b[1] * a[2]

\* The values a cell of an input field can hold.
CellValues == {NaN} \cup {Num(v) : v \in 0..MaxVal}

\* sum(skipna=True), xarray's default for floats, over the terms f[k] for k
\* along the sequence `keys`: a missing term counts as 0, the terms are
\* added one after the other, and the sum of no term is 0.
RECURSIVE SumFrom(_, _, _)
SumFrom(f, keys, acc) ==
    IF keys = <<>> THEN acc
    ELSE SumFrom(f, Tail(keys),
                 Add(acc, IF IsNull(f[Head(keys)]) THEN Zero ELSE f[Head(keys)]))

SumSkipNa(f, keys) == SumFrom(f, keys, Zero)

\* count(): the number of non-missing terms.
CountNotNull(f, keys) ==
    Cardinality({n \in 1..Len(keys) : ~IsNull(f[keys[n]])})

\* mean(skipna=True): the sum of the non-missing terms over their number;
\* NaN (0/0) when there is none.
MeanSkipNa(f, keys) == Div(SumSkipNa(f, keys), Num(CountNotNull(f, keys)))

\* The elements of a set of integers, ascending.
RECURSIVE SortedSeq(_)
SortedSeq(S) ==
    IF S = {} THEN <<>>
    ELSE LET m == CHOOSE x \in S : \A y \in S : x <= y
         IN  <<m>> \o SortedSeq(S \ {m})

\* ------------------------------------------------------------------ fields

\* A timestamp of the time axis is <<year, day of the year>>.
Before(s, t) == s[1] < t[1] \/ (s[1] = t[1] /\ s[2] < t[2])

\* The cells of a field: one index per axis, in the order time, lat, lon.
Cells(f) == (1..Len(f.time)) \X (1..Len(f.lat)) \X (1..Len(f.lon))

\* The cells of time step t in the order of the array's memory: latitude
\* by latitude, and along the longitudes within a latitude.
SliceCells(f, t) ==
    [n \in 1..(Len(f.lat) * Len(f.lon)) |->
        <<t, ((n - 1) \div Len(f.lon)) + 1, ((n - 1) % Len(f.lon)) + 1>>]

\* The (lat, lon) positions of a field's horizontal grid.
Grid(f) == (1..Len(f.lat)) \X (1..Len(f.lon))

\* A field with the given axis labels and every content CellValues allows.
FieldsOver(time, lat, lon) ==
    { [dims |-> <<"time", "lat", "lon">>, time |-> time, lat |-> lat,
       lon |-> lon, val |-> v] :
      v \in [(1..Len(time)) \X (1..Len(lat)) \X (1..Len(lon)) -> CellValues] }

\* What is left of the axes once the axes of `gone` are reduced away.
DropDims(dims, gone) == SelectSeq(dims, LAMBDA d : d \notin gone)

\* -------------------------------------------------- xr_collapse_across_space

\* np.cos(lat * np.pi / 180.0) at the latitudes of the model: the float
\* nearest to the cosine.  Latitude 180 is a label the code accepts and
\* weights by -1.
CosDeg(lat) ==
    CASE lat = 0 -> Fl(Norm(10000, 10000))
      [] lat = 45 -> Fl(Norm(7071, 10000))
      [] lat = 180 -> Fl(Norm(-10000, 10000))

\* lat_weights = np.cos(da["lat"] * np.pi / 180.0), one weight per latitude.
LatWeights(f) == [i \in 1..Len(f.lat) |-> CosDeg(f.lat[i])]

\* weights = ones * lat_weights: the weight of a latitude, broadcast over
\* the whole shape of the field.
Weights(f) == [c \in Cells(f) |-> Mul(One, LatWeights(f)[c[2]])]

\* masked_weights = weights.where(~da.isnull(), 0)
MaskedWeightsNoMask(f) == Weights(f)

MaskedWeights(f) ==
    [c \in Cells(f) |-> IF ~IsNull(f.val[c]) THEN Weights(f)[c] ELSE Zero]

\* (da * masked_weights).sum(dim=("lat", "lon")) / masked_weights.sum(...)
GMSTMeanZeroGuarded(f) ==
    LET mw == MaskedWeights(f)
        prod == [c \in Cells(f) |-> Mul(f.val[c], mw[c])]
        slice(t) == SliceCells(f, t)
    IN  [t \in 1..Len(f.time) |->
            IF SumSkipNa(mw, slice(t)) = Zero THEN Zero
            ELSE Div(SumSkipNa(prod, slice(t)), SumSkipNa(mw, slice(t)))]

GMSTMean(f) ==
    LET mw == MaskedWeights(f)
        prod == [c \in Cells(f) |-> Mul(f.val[c], mw[c])]
        slice(t) == SliceCells(f, t)
    IN  [t \in 1..Len(f.time) |->
            Div(SumSkipNa(prod, slice(t)), SumSkipNa(mw, slice(t)))]

\* if weighting == "GMST"
KnownWeightingAnyCase(weighting) == weighting \in {"GMST", "gmst"}

KnownWeighting(weighting) == weighting = "GMST"

\* The whole function: the weighted mean, or the ValueError of the else
\* branch, whose message is f"{weighting} is an unknown weighting scheme".
xr_collapse_across_space(f, weighting) ==
    IF KnownWeighting(weighting)
    THEN [raised |-> "", dims |-> DropDims(f.dims, {"lat", "lon"}),
          val |-> GMSTMean(f)]
    ELSE [raised |-> "ValueError",
          msg |-> weighting \o " is an unknown weighting scheme"]

\* The weighting arguments a caller passes: the supported one, and others.
Weightings == {"GMST", "gmst", "area"}

\* The latitude axes of the input fields.
LatAxes == {<<0, 45>>, <<0, 180>>, <<45, 180>>}

\* The fields handed to the spatial reduction: one time step over a grid of
\* two latitudes and two longitudes, and two time steps over two latitudes
\* and one longitude.
SpaceFields ==
    UNION { FieldsOver(<< <<1995, 1>> >>, lat, <<10, 20>>)
            \cup FieldsOver(<< <<1995, 1>>, <<1995, 2>> >>, lat, <<10>>) :
            lat \in LatAxes }

NoCall == [op |-> "none"]

NoResult == [raised |-> ""]

\* The library is synchronous and single-threaded: a call is made when no
\* other call is outstanding, and the caller takes its result before the
\* next one.
Idle == call = NoCall

Return == ~Idle /\ call' = NoCall /\ out' = NoResult /\ UNCHANGED da

InitSpace == da \in SpaceFields /\ call = NoCall /\ out = NoResult

CollapseAcrossSpace ==
    \E w \in Weightings :
        /\ Idle
        /\ call' = [op |-> "xr_collapse_across_space", weighting |-> w]
        /\ out' = xr_collapse_across_space(da, w)
        /\ UNCHANGED da

NextSpace == CollapseAcrossSpace \/ Return

SpecSpace == InitSpace /\ [][NextSpace]_vars

\* ------------------------------------------------------- xr_collapse_across_time

\* A date string names a period, as pandas resolves partial date strings:
\* "1995" is the whole year, "1995-01-02" is that one day.  lo is the first
\* day of the period and hi the last.
ParseDate(s) ==
    CASE s = "1995" -> [lo |-> <<1995, 1>>, hi |-> <<1995, 365>>]
      [] s = "1996" -> [lo |-> <<1996, 1>>, hi |-> <<1996, 366>>]
      [] s = "1997" -> [lo |-> <<1997, 1>>, hi |-> <<1997, 365>>]
      [] s = "1998" -> [lo |-> <<1998, 1>>, hi |-> <<1998, 365>>]
      [] s = "1995-01-02" -> [lo |-> <<1995, 2>>, hi |-> <<1995, 2>>]

\* index.searchsorted(t, side="left"): how many labels are before t.
SearchLeft(time, t) == Cardinality({k \in 1..Len(time) : Before(time[k], t)})

\* index.searchsorted(t, side="right"): how many labels are not after t.
SearchRight(time, t) == Cardinality({k \in 1..Len(time) : ~Before(t, time[k])})

\* da.sel(time=slice(start, end)) on an ascending time axis: the positions
\* from the first label not before the start's period to the last label not
\* after the end's period; none when the two cross.
SelTimeEndExclusive(time, start, stop) ==
    (SearchLeft(time, ParseDate(start).lo) + 1)
        .. SearchLeft(time, ParseDate(stop).lo)

SelTime(time, start, stop) ==
    (SearchLeft(time, ParseDate(start).lo) + 1)
        .. SearchRight(time, ParseDate(stop).hi)

\* .mean("time") of the selected steps, cell by cell.
MeanOverTime(f, steps) ==
    [g \in Grid(f) |->
        LET series == [k \in 1..Len(f.time) |-> f.val[<<k, g[1], g[2]>>]]
        IN  MeanSkipNa(series, SortedSeq(steps))]

\* da.sel(time=slice(time_slice[0], time_slice[1])).mean("time")
xr_collapse_across_timeStrict(f, time_slice) ==
    IF SelTime(f.time, time_slice[1], time_slice[2]) = {}
    THEN [raised |-> "KeyError"]
    ELSE [raised |-> "", dims |-> DropDims(f.dims, {"time"}),
          val |-> MeanOverTime(f,
                      SelTime(f.time, time_slice[1], time_slice[2]))]

xr_collapse_across_time(f, time_slice) ==
    [raised |-> "", dims |-> DropDims(f.dims, {"time"}),
     val |-> MeanOverTime(f, SelTime(f.time, time_slice[1], time_slice[2]))]

\* ------------------------------------------------- apply_xr_collapse_across_time

\* f"{sl[0]}_{sl[1]}"
SliceKeyStartOnly(sl) == sl[1]

SliceKey(sl) == sl[1] \o "_" \o sl[2]

\* results[key] = value on a dict: a new key is added, a key already there
\* keeps its place and takes the new value.
DictSet(d, key, value) ==
    [k \in DOMAIN d \cup {key} |-> IF k = key THEN value ELSE d[k]]

\* The for loop over slices, from the empty dict.
RECURSIVE CollapseEach(_, _, _)
CollapseEach(f, slices, results) ==
    IF slices = <<>> THEN results
    ELSE CollapseEach(f, Tail(slices),
            DictSet(results, SliceKey(Head(slices)),
                    xr_collapse_across_time(f, Head(slices))))

EmptyDict == [k \in {} |-> 0]

apply_xr_collapse_across_time(f, slices) ==
    [raised |-> "", map |-> CollapseEach(f, slices, EmptyDict)]

\* ------------------------------------------------ xr_average_across_days_of_year

\* "time.year": the calendar year of each timestamp.
YearOf(t) == t[1]

\* The groups of groupby("time.year"): the distinct years, ascending.
Reverse(q) == [n \in 1..Len(q) |-> q[Len(q) + 1 - n]]

GroupYearsDescending(f) ==
    Reverse(SortedSeq({YearOf(f.time[k]) : k \in 1..Len(f.time)}))

GroupYears(f) == SortedSeq({YearOf(f.time[k]) : k \in 1..Len(f.time)})

\* The time steps of the group of year y, in the order of the time axis.
StepsOfYear(f, y) ==
    SortedSeq({k \in 1..Len(f.time) : YearOf(f.time[k]) = y})

\* The cells of a field grouped by year: <<group, lat, lon>>.
YearCells(f) == (1..Len(GroupYears(f))) \X (1..Len(f.lat)) \X (1..Len(f.lon))

\* The time series of the cell at grid position <<i, j>>.
Series(f, i, j) == [k \in 1..Len(f.time) |-> f.val[<<k, i, j>>]]

\* The axis `old` is named `new` and the other axes stay as they are.
RenameDim(dims, old, new) ==
    [n \in 1..Len(dims) |-> IF dims[n] = old THEN new ELSE dims[n]]

\* da.groupby("time.year").mean()
xr_average_across_days_of_year(f) ==
    [raised |-> "", dims |-> RenameDim(f.dims, "time", "year"),
     year |-> GroupYears(f),
     val |-> [c \in YearCells(f) |->
                MeanSkipNa(Series(f, c[2], c[3]),
                           StepsOfYear(f, GroupYears(f)[c[1]]))]]

\* -------------------------------------------------- xr_count_across_days_of_year

\* da.where(da > count_above): a value is kept where the comparison is
\* True and is missing elsewhere.
WhereAboveOrEqual(f, count_above) ==
    [f EXCEPT !.val = [c \in Cells(f) |->
        IF ~Gt(count_above, f.val[c]) /\ ~IsNull(f.val[c])
        THEN f.val[c] ELSE NaN]]

WhereAbove(f, count_above) ==
    [f EXCEPT !.val = [c \in Cells(f) |->
        IF Gt(f.val[c], count_above) THEN f.val[c] ELSE NaN]]

\* .groupby("time.year").count() and .rename(year="time")
xr_count_across_days_of_year(f, count_above) ==
    LET kept == WhereAbove(f, count_above)
    IN  [raised |-> "",
         dims |-> RenameDim(RenameDim(f.dims, "time", "year"), "year", "time"),
         time |-> GroupYears(kept),
         val |-> [c \in YearCells(kept) |->
                    Num(CountNotNull(Series(kept, c[2], c[3]),
                        StepsOfYear(kept, GroupYears(kept)[c[1]])))]]

\* ------------------------------------------------------ the temporal reductions

\* The length of the time axis of the single-cell input fields.
NTime == 3

\* The longest list handed to a function that takes a list (slices, cells).
MaxList == 2

\* The timestamps an input field's time axis is drawn from.
Stamps == {<<1995, 1>>, <<1995, 2>>, <<1996, 1>>, <<1997, 2>>}

\* The time axes: ascending, as the time axis of model output is.
TimeAxes ==
    {t \in [1..NTime -> Stamps] :
        \A k \in 1..(NTime - 1) : Before(t[k], t[k + 1])}

\* The fields handed to the temporal reductions: every time axis over one
\* cell, and a two-step axis over two cells.
TimeFields ==
    UNION {FieldsOver(t, <<0>>, <<10>>) : t \in TimeAxes}
        \cup FieldsOver(<< <<1995, 2>>, <<1996, 1>> >>, <<0>>, <<10, 20>>)

\* The date strings a caller passes as the bounds of a slice.
DateStrings == {"1995", "1996", "1998", "1995-01-02"}

\* The slices apply_xr_collapse_across_time is handed lists of.
SliceChoices == {<<"1995", "1996">>, <<"1996", "1997">>, <<"1998", "1998">>}

SliceLists == UNION {[1..n -> SliceChoices] : n \in 1..MaxList}

\* The thresholds of xr_count_across_days_of_year.
Thresholds == {Num(v) : v \in 0..MaxVal}

InitTime == da \in TimeFields /\ call = NoCall /\ out = NoResult

CollapseAcrossTime ==
    \E a \in DateStrings, b \in DateStrings :
        /\ Idle
        /\ call' = [op |-> "xr_collapse_across_time", time_slice |-> <<a, b>>]
        /\ out' = xr_collapse_across_time(da, <<a, b>>)
        /\ UNCHANGED da

ApplyCollapseAcrossTime ==
    \E sl \in SliceLists :
        /\ Idle
        /\ call' = [op |-> "apply_xr_collapse_across_time", slices |-> sl]
        /\ out' = apply_xr_collapse_across_time(da, sl)
        /\ UNCHANGED da

AverageAcrossDaysOfYear ==
    /\ Idle
    /\ call' = [op |-> "xr_average_across_days_of_year"]
    /\ out' = xr_average_across_days_of_year(da)
    /\ UNCHANGED da

CountAcrossDaysOfYear ==
    \E th \in Thresholds :
        /\ Idle
        /\ call' = [op |-> "xr_count_across_days_of_year", count_above |-> th]
        /\ out' = xr_count_across_days_of_year(da, th)
        /\ UNCHANGED da

NextTime ==
    \/ CollapseAcrossTime
    \/ ApplyCollapseAcrossTime
    \/ AverageAcrossDaysOfYear
    \/ CountAcrossDaysOfYear
    \/ Return

SpecTime == InitTime /\ [][NextTime]_vars

\* ---------------------------------------------- xr_quantiles_across_time_by_cell

\* The values of a series at the steps P, ascending.
RECURSIVE SortNums(_, _)
SortNums(series, P) ==
    IF P = {} THEN <<>>
    ELSE LET m == CHOOSE k \in P : \A j \in P : Le(series[k], series[j])
         IN  <<series[m]>> \o SortNums(series, P \ {m})

\* quantile(q, dim="time") of one series, with xarray's defaults: missing
\* values are skipped and the quantile is interpolated linearly between the
\* two order statistics around the position h = (n - 1) * q.  q is the
\* float nearest to the rational <<numerator, denominator>>.
Quantile(series, q) ==
    LET x == SortNums(series, {k \in DOMAIN series : ~IsNull(series[k])})
        n == Len(x)
        h == Mul(Num(n - 1), Fl(Norm(q[1], q[2])))
        lo == h[1] \div h[2]
        t == Sub(h, Num(lo))
    IN  IF n = 0 THEN NaN
        ELSE IF lo + 1 >= n THEN x[n]
        ELSE Add(x[lo + 1], Mul(Sub(x[lo + 2], x[lo + 1]), t))

\* index.get_loc(label): the position of a label of an axis, 0 when the
\* axis has no such label (the lookup then raises KeyError).
GetLocNearest(axis, label) ==
    CHOOSE i \in 1..Len(axis) :
        \A j \in 1..Len(axis) : Abs(axis[i] - label) <= Abs(axis[j] - label)

GetLoc(axis, label) ==
    IF \E i \in 1..Len(axis) : axis[i] = label
    THEN CHOOSE i \in 1..Len(axis) : axis[i] = label
    ELSE 0

\* da.sel(lat=c[0], lon=c[1], drop=True).quantile(q=q, dim='time')
QuantilesOfCell(f, q, c) ==
    LET i == GetLoc(f.lat, c[1])
        j == GetLoc(f.lon, c[2])
    IN  IF i = 0 \/ j = 0 THEN [raised |-> "KeyError"]
        ELSE [raised |-> "", dims |-> <<"quantile">>, quantile |-> q,
              val |-> [n \in 1..Len(q) |-> Quantile(Series(f, i, j), q[n])]]

\* The for loop over cells, from the empty dict: an exception of a lookup
\* leaves the loop and the function, and the dict built so far is lost.
RECURSIVE QuantilesEach(_, _, _, _)
QuantilesEach(f, q, cells, results) ==
    IF cells = <<>> THEN [raised |-> "", map |-> results]
    ELSE LET r == QuantilesOfCell(f, q, Head(cells))
         IN  IF r.raised # "" THEN [raised |-> r.raised, key |-> Head(cells)]
             ELSE QuantilesEach(f, q, Tail(cells),
                                DictSet(results, Head(cells), r))

xr_quantiles_across_time_by_cell(f, q, cells) ==
    QuantilesEach(f, q, cells, EmptyDict)

\* The fields handed to the quantile extraction: three time steps over one
\* cell, and two time steps over two latitudes.
CellFields ==
    FieldsOver(<< <<1995, 1>>, <<1995, 2>>, <<1995, 3>> >>, <<0>>, <<45>>)
        \cup FieldsOver(<< <<1995, 1>>, <<1995, 2>> >>, <<0, 45>>, <<45>>)

\* The (lat, lon) pairs a caller asks for: two cells of the grid, a latitude
\* the grid does not have, and a pair that names a cell only when swapped.
CellChoices == {<<0, 45>>, <<45, 45>>, <<90, 45>>, <<45, 0>>}

CellLists == UNION {[1..n -> CellChoices] : n \in 1..MaxList}

\* The quantile levels a caller asks for: those of the test, and the median.
QuantileLists == {<< <<1, 10>>, <<1, 5>> >>, << <<1, 2>> >>}

InitCell == da \in CellFields /\ call = NoCall /\ out = NoResult

QuantilesAcrossTimeByCell ==
    \E q \in QuantileLists, cells \in CellLists :
        /\ Idle
        /\ call' = [op |-> "xr_quantiles_across_time_by_cell", q |-> q,
                    cells |-> cells]
        /\ out' = xr_quantiles_across_time_by_cell(da, q, cells)
        /\ UNCHANGED da

NextCell == QuantilesAcrossTimeByCell \/ Return

SpecCell == InitCell /\ [][NextCell]_vars

\* ------------------------------------------------------------ plot_colored_maps

\* plt.subplots(1, ncols, ...), with matplotlib's default squeeze=True: no
\* column is a ValueError, one column gives the Axes object itself, and
\* more give a one-dimensional array of Axes.
Subplots(ncols) ==
    IF ncols < 1 THEN [raised |-> "ValueError"]
    ELSE IF ncols = 1 THEN [raised |-> "", kind |-> "Axes", n |-> 1]
    ELSE [raised |-> "", kind |-> "array", n |-> ncols]

\* One pass of the loop body on axes[i]: the map of the field drawn with
\* the shared colour range, and the title "{common_title} {name}".
Panel(entry, common_title, color_bar_range) ==
    [field |-> entry.field,
     vmin |-> color_bar_range[1], vmax |-> color_bar_range[2],
     title |-> common_title \o " " \o entry.name]

\* fig.colorbar(im, label=units, orientation="horizontal", ax=all axes)
Colorbar(units, n) ==
    [label |-> units, orientation |-> "horizontal", image |-> n, axes |-> n]

\* The whole function on an ordered mapping, given as the sequence of its
\* (name, field) entries.  axes[i] on a bare Axes object is a TypeError: it
\* is raised in the first pass of the loop, before anything is drawn.
plot_colored_maps(maps, common_title, units, color_bar_range) ==
    LET axes == Subplots(Len(maps))
    IN  IF axes.raised # "" THEN [raised |-> axes.raised, panels |-> <<>>]
        ELSE IF axes.kind # "array"
        THEN [raised |-> "TypeError", panels |-> <<>>]
        ELSE [raised |-> "",
              panels |-> [i \in 1..Len(maps) |->
                            Panel(maps[i], common_title, color_bar_range)],
              colorbar |-> Colorbar(units, Len(maps))]

\* The names of the plotted fields.
MapNames == {"A", "B", "C"}

\* The most fields one figure is asked to show.
MaxMaps == 2

\* A 2-D field: one latitude, one longitude.
PlaneFields ==
    {[dims |-> <<"lat", "lon">>, lat |-> <<0>>, lon |-> <<10>>, val |-> v] :
        v \in [{<<1, 1>>} -> CellValues]}

\* The mappings handed to plot_colored_maps: up to MaxMaps entries under
\* distinct names, in any order.
MapsOfFields ==
    UNION {{m \in [1..n -> [name : MapNames, field : PlaneFields]] :
              \A i, j \in 1..n : i # j => m[i].name # m[j].name} :
           n \in 1..MaxMaps}

Titles == {"sometitle", "tas"}

Units == {"someunits", "K"}

ColorBarRanges == {<<0, 1>>, <<1, 2>>}

InitPlot == da \in MapsOfFields /\ call = NoCall /\ out = NoResult

PlotColoredMaps ==
    \E title \in Titles, units \in Units, range \in ColorBarRanges :
        /\ Idle
        /\ call' = [op |-> "plot_colored_maps", common_title |-> title,
                    units |-> units, color_bar_range |-> range]
        /\ out' = plot_colored_maps(da, title, units, range)
        /\ UNCHANGED da

NextPlot == PlotColoredMaps \/ Return

SpecPlot == InitPlot /\ [][NextPlot]_vars

\* ------------------------------------------------- claims: spatial reduction

Range(s) == {s[i] : i \in DOMAIN s}

\* The sum of the terms f[k] for k along `keys`, one after the other;
\* nothing is skipped.
RECURSIVE PlainSumFrom(_, _, _)
PlainSumFrom(f, keys, acc) ==
    IF keys = <<>> THEN acc
    ELSE PlainSumFrom(f, Tail(keys), Add(acc, f[Head(keys)]))

PlainSum(f, keys) == PlainSumFrom(f, keys, Zero)

\* The non-missing cells of time step t, in the order of the array.
PresentCells(f, t) ==
    SelectSeq(SliceCells(f, t), LAMBDA c : ~IsNull(f.val[c]))

Present(f, t) == Range(PresentCells(f, t))

\* w(lat(c)): the weight of a cell, a function of its latitude alone.
CellWeight(f) == [c \in Cells(f) |-> CosDeg(f.lat[c[2]])]

\* sum(value(c) * w(lat(c))) / sum(w(lat(c))) over the non-missing cells.
WeightedRatio(f, t) ==
    LET w == CellWeight(f)
        vw == [c \in Cells(f) |-> Mul(f.val[c], w[c])]
    IN  Div(PlainSum(vw, PresentCells(f, t)), PlainSum(w, PresentCells(f, t)))

CalledSpace(w) == call.op = "xr_collapse_across_space" /\ call.weighting = w

\* C1: with weighting "GMST" the result has no 'lat' and no 'lon' axis and
\* holds, for every slice along the remaining axis, the cos(lat)-weighted
\* sum of the non-missing cells over the sum of their weights: a missing
\* cell is in neither sum.
C1_MaskedWeightedMean ==
    CalledSpace("GMST") =>
        /\ out.raised = ""
        /\ out.dims = <<"time">>
        /\ "lat" \notin Range(out.dims) /\ "lon" \notin Range(out.dims)
        /\ DOMAIN out.val = 1..Len(da.time)
        /\ \A t \in 1..Len(da.time) : out.val[t] = WeightedRatio(da, t)

\* C1's case: a slice with a missing cell and with non-missing cells at two
\* latitudes holding different values has been averaged.
C1_Witness ==
    /\ CalledSpace("GMST")
    /\ \E t \in 1..Len(da.time) :
        /\ \E c \in Cells(da) : c[1] = t /\ IsNull(da.val[c])
        /\ \E c, e \in Present(da, t) :
              c[2] # e[2] /\ da.val[c] # da.val[e]
        /\ IsFinite(out.val[t])

\* C2: every weighting other than "GMST" raises an error whose message names
\* the value, and gives no result.
C2_UnknownWeightingRaises ==
    \A w \in Weightings \ {"GMST"} :
        CalledSpace(w) =>
            /\ out.raised = "ValueError"
            /\ out.msg = w \o " is an unknown weighting scheme"
            /\ "val" \notin DOMAIN out

\* C2's case: a weighting that differs from "GMST" only by case was passed.
C2_Witness == CalledSpace("gmst") /\ out.raised = "ValueError"

Values(f, S) == {f.val[c] : c \in S}

\* Exact arithmetic on finite numbers, with no rounding.
ExactAdd(a, b) == Norm(a[1] * b[2] + b[1] * a[2], a[2] * b[2])

ExactMul(a, b) == Norm(a[1] * b[1], a[2] * b[2])

Magnitude(a) == <<Abs(a[1]), a[2]>>

\* The largest magnitude among the finite numbers of V.
MaxMagnitude(V) ==
    CHOOSE m \in {Magnitude(v) : v \in V} :
        \A v \in V : Le(Magnitude(v), m)

\* The rounding error the weighted mean of n cells can carry: 2n + 2 units
\* of roundoff (2 to the power -MantissaBits) of the largest magnitude.
RoundingError(V, n) ==
    ExactMul(Norm(2 * n + 2, Pow2(MantissaBits)), MaxMagnitude(V))

\* The weights of the non-missing cells of step t are none negative and
\* not all zero.
PositiveWeights(f, t) ==
    /\ \E c \in Present(f, t) : Gt(CellWeight(f)[c], Zero)
    /\ \A c \in Present(f, t) : ~Gt(Zero, CellWeight(f)[c])

\* The non-missing cells of step t are none, or their weights sum to zero.
NoWeight(f, t) ==
    Present(f, t) = {} \/ PlainSum(CellWeight(f), PresentCells(f, t)) = Zero

\* With no weight the denominator is zero and the result is not a finite
\* number (NaN, or +-inf when the weighted sum is not zero), and not 0.
UndefinedWithoutWeight(t) ==
    NoWeight(da, t) =>
        /\ SumSkipNa(MaskedWeights(da), SliceCells(da, t)) = Zero
        /\ ~IsFinite(out.val[t])
        /\ (Present(da, t) = {} => IsNull(out.val[t]))

C10_WitnessNoWeight ==
    /\ CalledSpace("GMST")
    /\ \E t \in 1..Len(da.time) :
        /\ Present(da, t) # {}
        /\ NoWeight(da, t)
        /\ out.val[t] = PosInf

\* ------------------------------------------------ claims: temporal reductions

\* start <= t <= end, a date string standing for its whole period.
InRange(t, start, stop) ==
    ~Before(t, ParseDate(start).lo) /\ ~Before(ParseDate(stop).hi, t)

StepsInRange(f, sl) == {k \in 1..Len(f.time) : InRange(f.time[k], sl[1], sl[2])}

\* The mean of the non-missing values of a series at the steps S; NaN when
\* there is none.
MeanOfPresent(series, S) ==
    LET P == SortedSeq({k \in S : ~IsNull(series[k])})
    IN  IF P = <<>> THEN NaN ELSE Div(PlainSum(series, P), Num(Len(P)))

CalledTime == call.op = "xr_collapse_across_time"

CalledApply == call.op = "apply_xr_collapse_across_time"

\* C4: xr_collapse_across_time gives, for each (lat, lon) cell, the mean of
\* the values at exactly the timestamps t with start <= t <= end, both ends
\* included, and the result has no 'time' axis.
C4_InclusiveRangeMean ==
    CalledTime =>
        /\ out.raised = ""
        /\ out.dims = <<"lat", "lon">>
        /\ DOMAIN out.val = Grid(da)
        /\ \A g \in Grid(da) :
              out.val[g] = MeanOfPresent(Series(da, g[1], g[2]),
                                         StepsInRange(da, call.time_slice))

\* C4's case: a range that starts on a timestamp of the field, leaves an
\* earlier one out and takes in two steps holding different values.
C4_Witness ==
    /\ CalledTime
    /\ call.time_slice = <<"1995-01-02", "1996">>
    /\ da.time = << <<1995, 1>>, <<1995, 2>>, <<1996, 1>> >>
    /\ da.val[<<2, 1, 1>>] = Num(0) /\ da.val[<<3, 1, 1>>] = Num(1)
    /\ da.val[<<1, 1, 1>>] = Num(1)
    /\ out.val[<<1, 1>>] = Norm(1, 2)

\* The last entry of the list whose key is `key`.
LastWithKey(slices, key) ==
    slices[CHOOSE i \in 1..Len(slices) :
        /\ SliceKey(slices[i]) = key
        /\ \A j \in (i + 1)..Len(slices) : SliceKey(slices[j]) # key]

\* C3 as stated: the mapping has one entry per entry of the list, and under
\* the key "<start>_<end>" of each entry the reduced field of that entry.
C3_OneEntryPerListEntry ==
    CalledApply =>
        /\ Cardinality(DOMAIN out.map) = Len(call.slices)
        /\ \A i \in 1..Len(call.slices) :
              out.map[SliceKey(call.slices[i])]
                  = xr_collapse_across_time(da, call.slices[i])

\* C3 amended: the mapping has one entry per distinct key "<start>_<end>" of
\* the list (as many as the list has entries when their keys differ), and
\* under each key the reduced field of the last entry that gave that key.
C3_OneEntryPerKey ==
    CalledApply =>
        /\ out.raised = ""
        /\ DOMAIN out.map =
              {call.slices[i][1] \o "_" \o call.slices[i][2] :
                  i \in 1..Len(call.slices)}
        /\ \A key \in DOMAIN out.map :
              out.map[key]
                  = xr_collapse_across_time(da, LastWithKey(call.slices, key))
        /\ (\A i, j \in 1..Len(call.slices) :
                i # j => SliceKey(call.slices[i]) # SliceKey(call.slices[j]))
              => Cardinality(DOMAIN out.map) = Len(call.slices)

\* C3's cases: a list that holds one range twice gives one entry, and the
\* two ranges of the test give two entries that differ.
C3_Witness ==
    /\ CalledApply
    /\ call.slices = << <<"1995", "1996">>, <<"1995", "1996">> >>
    /\ DOMAIN out.map = {"1995_1996"}
    /\ \E g \in Grid(da) : IsFinite(out.map["1995_1996"].val[g])

C3_WitnessDistinct ==
    /\ CalledApply
    /\ call.slices = << <<"1995", "1996">>, <<"1996", "1997">> >>
    /\ DOMAIN out.map = {"1995_1996", "1996_1997"}
    /\ out.map["1995_1996"] # out.map["1996_1997"]

\* C8: a range no timestamp falls in raises nothing and gives a result with
\* no 'time' axis whose every cell is missing; the mapping of
\* apply_xr_collapse_across_time holds the key of such a range next to the
\* keys of the other ranges.
C8_EmptyRangeIsMissing ==
    /\ (CalledTime /\ StepsInRange(da, call.time_slice) = {}) =>
          /\ out.raised = ""
          /\ "time" \notin Range(out.dims)
          /\ \A g \in Grid(da) : IsNull(out.val[g])
    /\ CalledApply =>
          \A i \in 1..Len(call.slices) :
              StepsInRange(da, call.slices[i]) = {} =>
                  /\ out.raised = ""
                  /\ \A j \in 1..Len(call.slices) :
                        SliceKey(call.slices[j]) \in DOMAIN out.map
                  /\ LET r == out.map[SliceKey(call.slices[i])]
                     IN  /\ r.raised = ""
                         /\ "time" \notin Range(r.dims)
                         /\ \A g \in Grid(da) : IsNull(r.val[g])

\* C8's case: an empty range listed after a range that holds values.
C8_Witness ==
    /\ CalledApply
    /\ call.slices = << <<"1995", "1996">>, <<"1998", "1998">> >>
    /\ \E g \in Grid(da) : IsFinite(out.map["1995_1996"].val[g])
    /\ \A g \in Grid(da) : IsNull(out.map["1998_1998"].val[g])
    /\ \A k \in DOMAIN da.val : ~IsNull(da.val[k])

CalledAverage == call.op = "xr_average_across_days_of_year"

CalledCount == call.op = "xr_count_across_days_of_year"

YearsPresent(f) == {f.time[k][1] : k \in 1..Len(f.time)}

\* C5: 'time' is replaced by 'year'; the year axis holds each calendar year
\* of the input once, ascending; the entry of year y is, cell by cell, the
\* mean of the values whose timestamp is in year y, so a field of ones
\* gives ones.
C5_YearlyMean ==
    CalledAverage =>
        /\ out.raised = ""
        /\ out.dims = <<"year", "lat", "lon">>
        /\ Len(out.year) = Cardinality(YearsPresent(da))
        /\ Range(out.year) = YearsPresent(da)
        /\ \A n \in 1..(Len(out.year) - 1) : out.year[n] < out.year[n + 1]
        /\ DOMAIN out.val =
              (1..Len(out.year)) \X (1..Len(da.lat)) \X (1..Len(da.lon))
        /\ \A n \in 1..Len(out.year), g \in Grid(da) :
              out.val[<<n, g[1], g[2]>>] =
                  MeanOfPresent(Series(da, g[1], g[2]),
                      {k \in 1..Len(da.time) : da.time[k][1] = out.year[n]})
        /\ (\A c \in Cells(da) : da.val[c] = One)
              => \A c \in DOMAIN out.val : out.val[c] = One

\* C5's case: two steps of one year holding 0 and 1 average to 1/2, next
\* to a later year.
C5_Witness ==
    /\ CalledAverage
    /\ Len(out.year) = 2
    /\ out.val[<<1, 1, 1>>] = Norm(1, 2)
    /\ IsFinite(out.val[<<2, 1, 1>>])

CalledQuantiles == call.op = "xr_quantiles_across_time_by_cell"

\* The pair names a cell of the field: its latitude is a label of the lat
\* axis and its longitude a label of the lon axis.
OnGrid(f, c) == c[1] \in Range(f.lat) /\ c[2] \in Range(f.lon)

\* The time series of the cell whose labels are the pair c.
SeriesAt(f, c) ==
    [k \in 1..Len(f.time) |->
        f.val[<<k, CHOOSE i \in 1..Len(f.lat) : f.lat[i] = c[1],
                   CHOOSE j \in 1..Len(f.lon) : f.lon[j] = c[2]>>]]

C7_WitnessOffGrid ==
    /\ CalledQuantiles
    /\ call.cells = << <<0, 45>>, <<90, 45>> >>
    /\ out.raised = "KeyError"

\* -------------------------------------------------------- claims: rendering

CalledPlot == call.op = "plot_colored_maps"

\* What a figure shows when the call went through: one panel per named
\* field, in the order of the mapping, titled "<common_title> <name>" and
\* drawn with vmin/vmax of color_bar_range, then one horizontal colorbar
\* labelled with units.
RendersEveryField ==
    /\ out.raised = ""
    /\ Len(out.panels) = Len(da)
    /\ \A i \in 1..Len(da) :
          /\ out.panels[i].field = da[i].field
          /\ out.panels[i].title = call.common_title \o " " \o da[i].name
          /\ out.panels[i].vmin = call.color_bar_range[1]
          /\ out.panels[i].vmax = call.color_bar_range[2]
    /\ out.colorbar.label = call.units
    /\ out.colorbar.orientation = "horizontal"

\* C9: for every mapping of at least one named field, one entry included,
\* plot_colored_maps raises nothing and renders every field.
C9_RendersAnyNonEmptyMapping ==
    (CalledPlot /\ Len(da) >= 1) => RendersEveryField

\* C9 where the code meets it: a mapping of two or more fields.
C9_RendersTwoOrMore ==
    (CalledPlot /\ Len(da) >= 2) => RendersEveryField

C9_Witness == CalledPlot /\ Len(da) = 2 /\ out.raised = ""

====
